---------------------------- MODULE Spec2Model ----------------------------
(***************************************************************************)
(* A model of classicserver/server.py (class ClassicServer): the           *)
(* connection table, the two player maps, the ID counter, and the          *)
(* operations add_player, kick_player, _disconnect and broadcast.          *)
(*                                                                         *)
(* A Connection is identified by its address (Connection.get_address()).   *)
(* An address is accepted at most once, so the address also identifies     *)
(* the Connection object.  A Player object is the record                   *)
(* [player_id, address, name, perm] built at server.py:289.                *)
(*                                                                         *)
(* Python dictionaries are modelled as functions; iteration over           *)
(* self._players.copy().values() visits the players in ascending key       *)
(* order.                                                                  *)
(***************************************************************************)
EXTENDS Integers, Sequences, FiniteSets, TLC

VARIABLES connections,          \* keys of self._connections
          players,              \* self._players: player_id -> Player
          players_by_address,   \* self._players_by_address: address -> Player
          next_player_id,       \* self._player_id
          accepted,             \* addresses for which a Connection object exists
          broken,               \* addresses whose socket is broken: send() raises
          sent,                 \* packets queued by the last operation, in order
          last,                 \* the last operation, its arguments and outcome
          processed,            \* addresses a _disconnect call has fully processed
          thr,                  \* per session: position of its add_player call
          players_lock,         \* holder of self._players_lock (0 = free)
          calls,                \* add_player calls made by the receive threads
          running,              \* self._running
          task,                 \* per thread: its position and its call stack
          connections_lock      \* holder of self._connections_lock (0 = free)

vars == <<connections, players, players_by_address, next_player_id, accepted,
          broken, sent, last, processed, thr, players_lock, calls,
          running, task, connections_lock>>

LoopVars == <<running, task, connections_lock>>

-----------------------------------------------------------------------------
(* Bounds of the model *)

MaxSessions == 3        \* addresses that may connect in Spec and SpecConc
FillSessions == 257     \* addresses that connect, one after the other, in SpecFill
MaxPlayers == 2         \* config["server"]["max_players"]
ConcSessions == 2       \* sessions whose add_player calls interleave in SpecConc
MaxCalls == 4           \* add_player calls made in SpecConc

(* Program constants *)

IdRange == 256          \* range(256)
ScanFirst == 0          \* range(256) starts at 0
PermOp == 100           \* 0x64
PermNormal == 0         \* 0x00

Names == {"op", "guest"}
OpPlayers == {"op"}     \* config["server"]["ops"]

Addresses == 1..MaxSessions
FillAddresses == 1..FillSessions
ConcAddresses == 1..ConcSessions

-----------------------------------------------------------------------------
(* Dictionaries *)

EmptyDict == [k \in {} |-> 0]
DictDel(d, k) == [x \in (DOMAIN d) \ {k} |-> d[x]]
DictSet(d, k, v) == [x \in (DOMAIN d) \cup {k} |-> IF x = k THEN v ELSE d[x]]

Min(S) == CHOOSE x \in S : \A y \in S : x <= y

-----------------------------------------------------------------------------
(* Packets *)

(* A packet is a record; text is a sequence of strings standing for the     *)
(* formatted message or reason.                                             *)
MessagePacket(message) == [type |-> "message", player_id |-> 0, text |-> message]
DespawnPlayerPacket(id) == [type |-> "despawn", player_id |-> id, text |-> <<>>]
DisconnectPlayerPacket(reason) == [type |-> "disconnect", player_id |-> 0, text |-> <<reason>>]

QuitMessage(name) == <<name, "has quit!">>
KickMessage(name, reason) == <<"Player", name, "kicked", reason>>
DataPacket == [type |-> "data", player_id |-> 0, text |-> <<>>]

-----------------------------------------------------------------------------
(* The server state an operation works on.  exc is the exception that is   *)
(* propagating ("none" when there is none); ret is the return value        *)
(* (-1 for None).                                                          *)

ServerState == [connections |-> connections, players |-> players,
                players_by_address |-> players_by_address,
                next_player_id |-> next_player_id,
                sent |-> <<>>, exc |-> "none", ret |-> -1]

Raise(s, e) == [s EXCEPT !.exc = e]

(* Connection.send: queues the data, raises IOError on a broken connection *)
CanSend(address) == address \notin broken
Queue(s, address, data) == [s EXCEPT !.sent = Append(@, [to |-> address, data |-> data])]
send(s, address, data) ==
    IF CanSend(address) THEN Queue(s, address, data) ELSE Raise(s, "IOError")

(* Connection.get_address: the address the Connection was built with *)
get_address(connection) == connection

is_op(player_name) == player_name \in OpPlayers

-----------------------------------------------------------------------------
(* broadcast (server.py:170-190) and _disconnect (server.py:192-219)       *)

RECURSIVE broadcast_loop(_, _, _, _, _)
RECURSIVE broadcast(_, _, _)
RECURSIVE disconnect(_, _)

(* line 186: the recipient is skipped when its address is in ignore *)
Ignored(address, ignore) == address \in ignore

(* lines 208-209 *)
PlayerOf(s, address) ==
    IF address \in DOMAIN s.players_by_address
    THEN {s.players_by_address[address]} ELSE {}

(* lines 211-212 clearing the whole connection table *)
DelConnection_ClearsTable(s, address) ==
    IF address \in s.connections
    THEN [s EXCEPT !.connections = {}]
    ELSE Raise(s, "KeyError")

(* lines 211-212: del self._connections[address] *)
DelConnection(s, address) ==
    IF address \in s.connections
    THEN [s EXCEPT !.connections = @ \ {address}]
    ELSE Raise(s, "KeyError")

(* lines 216-217 *)
DelPlayer(s, address, player) ==
    LET s1 == [s EXCEPT !.players_by_address = DictDel(@, address)]
    IN  IF player.player_id \in DOMAIN s1.players
        THEN [s1 EXCEPT !.players = DictDel(@, player.player_id)]
        ELSE Raise(s1, "KeyError")

(* lines 218-219 *)
AnnounceQuit(s, player) ==
    LET s1 == broadcast(s, DespawnPlayerPacket(player.player_id), {})
    IN  IF s1.exc # "none" THEN s1
        ELSE broadcast(s1, MessagePacket(QuitMessage(player.name)), {})

(* lines 197-199: "if not address"; the address of a Connection is a       *)
(* non-empty tuple, modelled as a positive number                          *)
HasAddress(address) == address > 0

(* lines 194-219; connection.close() (lines 203-206) changes nothing the   *)
(* server reads                                                            *)
disconnect(s, connection) ==
    LET address == get_address(connection)
        found == PlayerOf(s, address)
        s1 == DelConnection(s, address)
    IN  IF ~HasAddress(address) THEN s
        ELSE IF s1.exc # "none" \/ found = {} THEN s1
        ELSE LET player == CHOOSE p \in found : TRUE
                 s2 == DelPlayer(s1, address, player)
             IN  IF s2.exc # "none" THEN s2 ELSE AnnounceQuit(s2, player)

(* lines 185-190: one iteration of the loop over the snapshot *)
BroadcastOne(s, player, data, ignore) ==
    LET connection == player.address
    IN  IF Ignored(get_address(connection), ignore) THEN s
        ELSE IF CanSend(connection) THEN Queue(s, connection, data)
        ELSE disconnect(s, connection)

broadcast_loop(s, snapshot, todo, data, ignore) ==
    IF todo = {} \/ s.exc # "none" THEN s
    ELSE LET i == Min(todo)
         IN  broadcast_loop(BroadcastOne(s, snapshot[i], data, ignore),
                            snapshot, todo \ {i}, data, ignore)

broadcast(s, data, ignore) ==
    broadcast_loop(s, s.players, DOMAIN s.players, data, ignore)

-----------------------------------------------------------------------------
(* add_player (server.py:262-296)                                          *)

(* the operator exemption of line 275 left out *)
CanJoin_NoOperatorExemption(s, name) == Cardinality(DOMAIN s.players) < MaxPlayers

(* line 275 *)
CanJoin(s, name) == Cardinality(DOMAIN s.players) < MaxPlayers \/ is_op(name)

(* line 277 *)
SlotTaken(s) == s.next_player_id \in DOMAIN s.players

(* line 279 looking the ID up in the wrong map *)
IsFree_WrongMap(s, i) == i \notin DOMAIN s.players_by_address

(* line 279 *)
IsFree(s, i) == i \notin DOMAIN s.players

(* lines 278-284: the first i of range(256) that is free, if there is one *)
ScanIds(s) ==
    LET free == {i \in ScanFirst..(IdRange - 1) : IsFree(s, i)}
    IN  IF free = {} THEN Raise(s, "ValueError")
        ELSE [s EXCEPT !.next_player_id = Min(free), !.ret = Min(free)]

(* lines 286-287 *)
TakeCounter(s) == [s EXCEPT !.ret = s.next_player_id, !.next_player_id = @ + 1]

(* lines 276-287 *)
AllocateId(s) == IF SlotTaken(s) THEN ScanIds(s) ELSE TakeCounter(s)

(* line 289 *)
Player(player_id, connection, name) ==
    [player_id |-> player_id, address |-> get_address(connection), name |-> name,
     perm |-> IF is_op(name) THEN PermOp ELSE PermNormal]

(* lines 290-292 *)
InsertPlayer(s, player) ==
    [s EXCEPT !.players = DictSet(@, player.player_id, player),
              !.players_by_address = DictSet(@, player.address, player)]

(* lines 295-296 *)
RejectFull(s, connection) ==
    send(s, connection, DisconnectPlayerPacket("Server full"))

add_player(s, connection, name) ==
    IF CanJoin(s, name)
    THEN LET s1 == AllocateId(s)
         IN  IF s1.exc # "none" THEN s1
             ELSE InsertPlayer(s1, Player(s1.ret, connection, name))
    ELSE RejectFull(s, connection)

-----------------------------------------------------------------------------
(* kick_player (server.py:298-313)                                         *)

(* lines 310-311 *)
KickDelete(s, player_id) == [s EXCEPT !.players = DictDel(@, player_id)]

(* lines 312-313 *)
KickAnnounce(s, player, reason) ==
    LET s1 == broadcast(s, MessagePacket(KickMessage(player.name, reason)), {})
    IN  IF s1.exc # "none" THEN s1 ELSE disconnect(s1, player.address)

kick_player(s, player_id, reason) ==
    IF player_id \notin DOMAIN s.players THEN Raise(s, "KeyError")
    ELSE LET player == s.players[player_id]
             s1 == send(s, player.address, DisconnectPlayerPacket(reason))
         IN  IF s1.exc # "none" THEN s1
             ELSE KickAnnounce(KickDelete(s1, player_id), player, reason)

-----------------------------------------------------------------------------
(* The server started by __init__ and _start: empty maps, counter 0 *)

NoOp == [op |-> "start", address |-> 0, name |-> "", player_id |-> -1,
         ignore |-> {}, ret |-> -1, exc |-> "none"]

Idle == [pc |-> "idle", name |-> "", player_id |-> -1, i |-> 0, tmp |-> 0]

(* The threads _start creates (lines 224-230) besides the receive threads:  *)
(* each is at the test of its while loop, with no call in progress          *)
SaveThread == -1
FlushThread == -2
KeepAliveThread == -3
LoopThreads == {SaveThread, FlushThread, KeepAliveThread}

(* the thread of a caller of kick_player *)
CallerThread == -4
Started == [pc |-> "while", stack |-> <<>>]

(* The receive thread of a session is named by the session's address; it   *)
(* is between two packets                                                   *)
Threads == LoopThreads \cup Addresses \cup {CallerThread}
Resting == [pc |-> "idle", stack |-> <<>>]

Init ==
    /\ connections = {}
    /\ players = EmptyDict
    /\ players_by_address = EmptyDict
    /\ next_player_id = 0
    /\ accepted = {}
    /\ broken = {}
    /\ sent = <<>>
    /\ last = NoOp
    /\ processed = {}
    /\ thr = [a \in Addresses |-> Idle]
    /\ players_lock = 0
    /\ calls = 0
    /\ running = TRUE
    /\ task = [t \in Threads |-> IF t \in LoopThreads THEN Started ELSE Resting]
    /\ connections_lock = 0

(* The state an operation leaves, and the record of the call *)
Commit(s, call) ==
    /\ connections' = s.connections
    /\ players' = s.players
    /\ players_by_address' = s.players_by_address
    /\ next_player_id' = s.next_player_id
    /\ sent' = s.sent
    /\ last' = [call EXCEPT !.ret = s.ret, !.exc = s.exc]

(* _connection_thread (lines 154-159): a client connects from address a *)
Connect(a) ==
    /\ a \notin accepted
    /\ accepted' = accepted \cup {a}
    /\ connections' = connections \cup {a}
    /\ sent' = <<>>
    /\ last' = [NoOp EXCEPT !.op = "accept", !.address = a]
    /\ UNCHANGED <<players, players_by_address, next_player_id, broken,
                   processed, thr, players_lock, calls, LoopVars>>

(* Addresses are interchangeable: they connect in ascending order *)
Accept == Addresses \ accepted # {} /\ Connect(Min(Addresses \ accepted))

(* The socket of a tracked connection breaks: every later send raises *)
Break ==
    \E a \in connections \ broken :
        /\ broken' = broken \cup {a}
        /\ sent' = <<>>
        /\ last' = [NoOp EXCEPT !.op = "break", !.address = a]
        /\ UNCHANGED <<connections, players, players_by_address, next_player_id,
                       accepted, processed, thr, players_lock, calls, LoopVars>>

(* The packet handler calls add_player for a tracked connection that has   *)
(* not logged in yet                                                        *)
Login(a, name) ==
    /\ a \in connections
    /\ a \notin DOMAIN players_by_address
    /\ Commit(add_player(ServerState, a, name),
              [NoOp EXCEPT !.op = "add_player", !.address = a, !.name = name])
    /\ UNCHANGED <<accepted, broken, processed, thr, players_lock, calls, LoopVars>>

AddPlayer == \E a \in connections, name \in Names : Login(a, name)

KickPlayer ==
    \E id \in DOMAIN players :
        /\ Commit(kick_player(ServerState, id, "kick"),
                  [NoOp EXCEPT !.op = "kick_player", !.player_id = id,
                               !.address = players[id].address,
                               !.name = players[id].name])
        /\ UNCHANGED <<accepted, broken, processed, thr, players_lock, calls, LoopVars>>

(* _disconnect called with a Connection object, tracked or already removed *)
Disconnect ==
    \E a \in accepted :
        LET s == disconnect(ServerState, a)
        IN  /\ Commit(s, [NoOp EXCEPT !.op = "_disconnect", !.address = a])
            /\ processed' = IF s.exc = "none" THEN processed \cup {a} ELSE processed
            /\ UNCHANGED <<accepted, broken, thr, players_lock, calls, LoopVars>>

Broadcast ==
    \E ignore \in {{}} \cup {{a} : a \in accepted} :
        /\ Commit(broadcast(ServerState, DataPacket, ignore),
                  [NoOp EXCEPT !.op = "broadcast", !.ignore = ignore])
        /\ UNCHANGED <<accepted, broken, processed, thr, players_lock, calls, LoopVars>>

Next == Accept \/ Break \/ AddPlayer \/ KickPlayer \/ Disconnect \/ Broadcast

Spec == Init /\ [][Next]_vars

(* Admission and departure only *)
NextAdmit == Accept \/ Break \/ AddPlayer \/ Disconnect

SpecAdmit == Init /\ [][NextAdmit]_vars

(* Clients connect and log in one after the other, nobody leaves *)
FillAccept ==
    /\ connections \subseteq DOMAIN players_by_address
    /\ FillAddresses \ accepted # {}
    /\ Connect(Min(FillAddresses \ accepted))

NextFill == FillAccept \/ AddPlayer

SpecFill == Init /\ [][NextFill]_vars

-----------------------------------------------------------------------------
(* add_player run by the receive threads of several sessions, one          *)
(* statement at a time, with operators' names (they pass line 275).  self._player_id += 1 (line 287) is a load          *)
(* followed by a store.  thr[a] is the frame of session a's call: its       *)
(* position, the name argument, the local player_id, the loop variable i    *)
(* and the value loaded at line 287.                                        *)

Frame(a) == thr[a]
Goto(a, pc) == thr' = [thr EXCEPT ![a].pc = pc]
ServerVars == <<connections, players, players_by_address, next_player_id>>

(* The packet handler calls add_player(connection, coordinates, name) *)
CallAddPlayer(a, name) ==
    /\ a \in connections
    /\ Frame(a).pc = "idle"
    /\ calls < MaxCalls
    /\ calls' = calls + 1
    /\ thr' = [thr EXCEPT ![a] = [Idle EXCEPT !.pc = "l275", !.name = name]]
    /\ UNCHANGED <<ServerVars, accepted, broken, sent, last, processed, players_lock, LoopVars>>

(* line 275, and lines 295-296 when the test fails *)
L275(a) ==
    /\ Frame(a).pc = "l275"
    /\ IF CanJoin(ServerState, Frame(a).name)
       THEN /\ Goto(a, "l276")
            /\ UNCHANGED <<sent, last>>
       ELSE LET s == RejectFull(ServerState, a)
            IN  /\ Goto(a, "idle")
                /\ sent' = s.sent
                /\ last' = [NoOp EXCEPT !.op = "add_player", !.address = a,
                                        !.name = Frame(a).name, !.exc = s.exc]
    /\ UNCHANGED <<ServerVars, accepted, broken, processed, players_lock, calls, LoopVars>>

(* line 276: player_id = self._player_id *)
L276(a) ==
    /\ Frame(a).pc = "l276"
    /\ thr' = [thr EXCEPT ![a].pc = "l277", ![a].player_id = next_player_id]
    /\ UNCHANGED <<ServerVars, accepted, broken, sent, last, processed, players_lock, calls, LoopVars>>

(* line 277: if self._player_id in self._players *)
L277(a) ==
    /\ Frame(a).pc = "l277"
    /\ IF SlotTaken(ServerState)
       THEN thr' = [thr EXCEPT ![a].pc = "l278", ![a].i = ScanFirst]
       ELSE Goto(a, "l287")
    /\ UNCHANGED <<ServerVars, accepted, broken, sent, last, processed, players_lock, calls, LoopVars>>

(* lines 278-279 and 283-284: one turn of the loop over range(256) *)
L278(a) ==
    /\ Frame(a).pc = "l278"
    /\ IF Frame(a).i >= IdRange
       THEN /\ Goto(a, "idle")
            /\ last' = [NoOp EXCEPT !.op = "add_player", !.address = a,
                                    !.name = Frame(a).name, !.exc = "ValueError"]
       ELSE /\ IF IsFree(ServerState, Frame(a).i)
               THEN Goto(a, "l280")
               ELSE thr' = [thr EXCEPT ![a].i = @ + 1]
            /\ UNCHANGED last
    /\ UNCHANGED <<ServerVars, accepted, broken, sent, processed, players_lock, calls, LoopVars>>

(* line 280: self._player_id = i *)
L280(a) ==
    /\ Frame(a).pc = "l280"
    /\ next_player_id' = Frame(a).i
    /\ Goto(a, "l281")
    /\ UNCHANGED <<connections, players, players_by_address, accepted, broken,
                   sent, last, processed, players_lock, calls, LoopVars>>

(* lines 281-282: player_id = i; break *)
L281(a) ==
    /\ Frame(a).pc = "l281"
    /\ thr' = [thr EXCEPT ![a].pc = "l289", ![a].player_id = Frame(a).i, ![a].i = 0]
    /\ UNCHANGED <<ServerVars, accepted, broken, sent, last, processed, players_lock, calls, LoopVars>>

(* line 287, the load of self._player_id *)
L287Load(a) ==
    /\ Frame(a).pc = "l287"
    /\ thr' = [thr EXCEPT ![a].pc = "l287s", ![a].tmp = next_player_id]
    /\ UNCHANGED <<ServerVars, accepted, broken, sent, last, processed, players_lock, calls, LoopVars>>

(* line 287, the store of the incremented value *)
L287Store(a) ==
    /\ Frame(a).pc = "l287s"
    /\ next_player_id' = Frame(a).tmp + 1
    /\ thr' = [thr EXCEPT ![a].pc = "l289", ![a].tmp = 0]
    /\ UNCHANGED <<connections, players, players_by_address, accepted, broken,
                   sent, last, processed, players_lock, calls, LoopVars>>

(* lines 289-290: the Player is built and the players lock is taken *)
L290(a) ==
    /\ Frame(a).pc = "l289"
    /\ players_lock \in {0, a}
    /\ players_lock' = a
    /\ Goto(a, "l291")
    /\ UNCHANGED <<ServerVars, accepted, broken, sent, last, processed, calls, LoopVars>>

(* line 291 *)
L291(a) ==
    /\ Frame(a).pc = "l291"
    /\ players' = DictSet(players, Frame(a).player_id,
                          Player(Frame(a).player_id, a, Frame(a).name))
    /\ Goto(a, "l292")
    /\ UNCHANGED <<connections, players_by_address, next_player_id, accepted,
                   broken, sent, last, processed, players_lock, calls, LoopVars>>

(* line 292, and the release of the lock at the end of the with block *)
L292(a) ==
    /\ Frame(a).pc = "l292"
    /\ players_by_address' = DictSet(players_by_address, a,
                                     Player(Frame(a).player_id, a, Frame(a).name))
    /\ players_lock' = 0
    /\ Goto(a, "l293")
    /\ UNCHANGED <<connections, players, next_player_id, accepted, broken,
                   sent, last, processed, calls, LoopVars>>

(* line 293: return player_id *)
L293(a) ==
    /\ Frame(a).pc = "l293"
    /\ thr' = [thr EXCEPT ![a] = Idle]
    /\ UNCHANGED <<ServerVars, accepted, broken, sent, last, processed, players_lock, calls, LoopVars>>

AddPlayerStep ==
    \E a \in ConcAddresses :
        \/ (\E name \in OpPlayers : CallAddPlayer(a, name)) \/ L275(a) \/ L276(a) \/ L277(a) \/ L278(a)
        \/ L280(a) \/ L281(a) \/ L287Load(a) \/ L287Store(a)
        \/ L290(a) \/ L291(a) \/ L292(a) \/ L293(a)

ConcAccept ==
    /\ ConcAddresses \ accepted # {}
    /\ Connect(Min(ConcAddresses \ accepted))

(* _disconnect of a session, run between add_player calls *)
ConcDisconnect ==
    /\ \A a \in ConcAddresses : Frame(a).pc = "idle"
    /\ \E a \in connections :
         LET s == disconnect(ServerState, a)
         IN  /\ Commit(s, [NoOp EXCEPT !.op = "_disconnect", !.address = a])
             /\ processed' = IF s.exc = "none" THEN processed \cup {a} ELSE processed
             /\ UNCHANGED <<accepted, broken, thr, players_lock, calls, LoopVars>>

NextConc == ConcAccept \/ AddPlayerStep \/ ConcDisconnect

SpecConc == Init /\ [][NextConc]_vars

-----------------------------------------------------------------------------
(* add_player run by the receive threads of sessions that are not logged   *)
(* in, one statement at a time, with names that are not operators'.  The    *)
(* counter stays above every ID in use here, so the scan of lines 278-284   *)
(* is not entered.                                                          *)
GuestNames == Names \ OpPlayers

CallAsGuest(a) ==
    /\ a \notin DOMAIN players_by_address
    /\ \E name \in GuestNames : CallAddPlayer(a, name)

GuestStep ==
    \E a \in Addresses :
        \/ CallAsGuest(a) \/ L275(a) \/ L276(a) \/ L277(a)
        \/ L287Load(a) \/ L287Store(a)
        \/ L290(a) \/ L291(a) \/ L292(a) \/ L293(a)

NextGuests == Accept \/ GuestStep

SpecGuests == Init /\ [][NextGuests]_vars

-----------------------------------------------------------------------------
(* add_player called again for a session that is logged in already *)
AddPlayerAgain ==
    \E a \in connections \cap DOMAIN players_by_address, name \in Names :
        /\ calls < MaxCalls
        /\ calls' = calls + 1
        /\ Commit(add_player(ServerState, a, name),
                  [NoOp EXCEPT !.op = "add_player", !.address = a, !.name = name])
        /\ UNCHANGED <<accepted, broken, processed, thr, players_lock, LoopVars>>

NextAgain == ConcAccept \/ AddPlayer \/ AddPlayerAgain \/ KickPlayer \/ Disconnect

SpecAgain == Init /\ [][NextAgain]_vars

-----------------------------------------------------------------------------
(* The flush loop (server.py:161-168) and the keep-alive loop               *)
(* (server.py:144-152), one pass of the loop body at a time.  A thread      *)
(* whose target raises ends: its position becomes "dead".                   *)

PingPacket == [type |-> "ping", player_id |-> 0, text |-> <<>>]

(* Connection.flush: raises IOError on a broken connection *)
CanFlush(address) == address \notin broken

RECURSIVE flush_loop(_, _)
RECURSIVE keep_alive_loop(_, _, _)

(* lines 165-168: one turn of the loop *)
FlushOne(s, connection) ==
    IF CanFlush(connection) THEN s ELSE disconnect(s, connection)

(* lines 164-168: the loop over self._connections.copy().values() *)
flush_loop(s, todo) ==
    IF todo = {} \/ s.exc # "none" THEN s
    ELSE flush_loop(FlushOne(s, Min(todo)), todo \ {Min(todo)})

(* lines 148-151: one turn of the loop *)
PingOne(s, connection) ==
    IF CanSend(connection) THEN Queue(s, connection, PingPacket)
    ELSE disconnect(s, connection)

(* line 147 iterates self._connections.values(), the dictionary itself:    *)
(* the iterator raises RuntimeError when the dictionary has changed size    *)
(* since the loop began, and it tests this before it tests for the end      *)
SizeChanged(s, size) == Cardinality(s.connections) # size

keep_alive_loop(s, todo, size) ==
    IF s.exc # "none" THEN s
    ELSE IF SizeChanged(s, size) THEN Raise(s, "RuntimeError")
    ELSE IF todo = {} THEN s
    ELSE keep_alive_loop(PingOne(s, Min(todo)), todo \ {Min(todo)}, size)

(* lines 218-219 have run for the player: the despawn packet and the quit  *)
(* message are queued for every Player that remains                         *)
Announced(s, player) ==
    \A r \in DOMAIN s.players_by_address :
        /\ \E k \in 1..Len(s.sent) :
              s.sent[k] = [to |-> r, data |-> DespawnPlayerPacket(player.player_id)]
        /\ \E k \in 1..Len(s.sent) :
              s.sent[k] = [to |-> r, data |-> MessagePacket(QuitMessage(player.name))]

(* the sessions whose Player the pass has removed and announced *)
Departed(s) ==
    {a \in (DOMAIN players_by_address) \ (DOMAIN s.players_by_address) :
        Announced(s, players_by_address[a])}

Ended(s) == IF s.exc = "none" THEN "while" ELSE "dead"

(* _flush_thread: lines 162-168, one turn of the while loop *)
FlushPass ==
    /\ running
    /\ task[FlushThread] = Started
    /\ \E s \in {flush_loop(ServerState, connections)} :
           /\ Commit(s, [NoOp EXCEPT !.op = "flush"])
           /\ processed' = processed \cup Departed(s)
           /\ task' = [task EXCEPT ![FlushThread].pc = Ended(s)]
    /\ UNCHANGED <<accepted, broken, thr, players_lock, calls, running,
                   connections_lock>>

(* _keep_alive_thread: lines 145-152, one turn of the while loop *)
KeepAlivePass ==
    /\ running
    /\ task[KeepAliveThread] = Started
    /\ \E s \in {keep_alive_loop(ServerState, connections, Cardinality(connections))} :
           /\ Commit(s, [NoOp EXCEPT !.op = "keep_alive"])
           /\ processed' = processed \cup Departed(s)
           /\ task' = [task EXCEPT ![KeepAliveThread].pc = Ended(s)]
    /\ UNCHANGED <<accepted, broken, thr, players_lock, calls, running,
                   connections_lock>>

(* _stop: line 233 *)
Stop ==
    /\ running
    /\ running' = FALSE
    /\ sent' = <<>>
    /\ last' = [NoOp EXCEPT !.op = "_stop"]
    /\ UNCHANGED <<ServerVars, accepted, broken, processed, thr, players_lock,
                   calls, task, connections_lock>>

(* The loops and broadcast on a running server *)
NextIsolate ==
    Accept \/ Break \/ AddPlayer \/ FlushPass \/ KeepAlivePass \/ Broadcast

SpecIsolate == Init /\ [][NextIsolate]_vars

(* The same with _stop *)
NextLoops == NextIsolate \/ Stop

SpecLoops == Init /\ [][NextLoops]_vars

-----------------------------------------------------------------------------
(* The threads, one statement at a time.  task[t].stack is the call stack  *)
(* of thread t: a frame for each call of broadcast and _disconnect in       *)
(* progress, above the frame of the loop body or of the call the thread     *)
(* has made.  A frame holds the position and the locals of its call.        *)

NoPlayer == [player_id |-> -1, address |-> 0, name |-> "", perm |-> 0]
NoData == [type |-> "", player_id |-> 0, text |-> <<>>]

NewFrame(fn, pc) ==
    [fn |-> fn, pc |-> pc, address |-> 0, player |-> NoPlayer, data |-> NoData,
     ignore |-> {}, snapshot |-> EmptyDict, todo |-> {}, size |-> 0]

Stack(t) == task[t].stack
Top(t) == Stack(t)[Len(Stack(t))]
Below(t) == SubSeq(Stack(t), 1, Len(Stack(t)) - 1)
At(t, fn, pc) == Stack(t) # <<>> /\ Top(t).fn = fn /\ Top(t).pc = pc

(* variables no statement of broadcast, _disconnect or a loop assigns *)
Outside == <<next_player_id, accepted, broken, thr, calls, running>>

(* the top frame goes on as f *)
Continue(t, f) == task' = [task EXCEPT ![t].stack = Append(Below(t), f)]

(* the top frame, left as f, calls g *)
Call(t, f, g) == task' = [task EXCEPT ![t].stack = Below(t) \o <<f, g>>]

(* the top frame returns; the call a receive thread made is over when its  *)
(* last frame returns                                                       *)
Return(t) ==
    IF Below(t) = <<>>
    THEN /\ task' = [task EXCEPT ![t] = Resting]
         /\ last' = [NoOp EXCEPT !.op = Top(t).fn, !.address = Top(t).address]
    ELSE /\ task' = [task EXCEPT ![t].stack = Below(t)]
         /\ UNCHANGED last

(* a with block of line 183 that the frames hold *)
HoldsPlayersLock(frames) ==
    \E k \in 1..Len(frames) : frames[k].fn = "broadcast" /\ frames[k].pc # "l183"

(* the except clause of line 138 catching operating-system errors only *)
SaveCatches_OnlyIOError(e) == e = "IOError"

(* line 138: a bare except *)
SaveCatches(e) == TRUE

(* lines 130-140: the try block of _save_thread encloses the loop body,    *)
(* not the save of line 142                                                 *)
Caught(t, e) == t = SaveThread /\ Stack(t)[1].pc # "l142" /\ SaveCatches(e)

(* An exception propagates: broadcast's handler (line 189) encloses send    *)
(* only, so the exception leaves every frame, the with blocks release the   *)
(* locks, and the thread ends unless _save_thread catches it                *)
Unwind(t, e) ==
    /\ task' = [task EXCEPT ![t] =
                   IF Caught(t, e) THEN Started
                   ELSE IF t \in LoopThreads THEN [pc |-> "dead", stack |-> <<>>]
                   ELSE Resting]
    /\ players_lock' = IF players_lock = t THEN 0 ELSE players_lock
    /\ connections_lock' = IF connections_lock = t THEN 0 ELSE connections_lock
    /\ last' = [NoOp EXCEPT !.op = Stack(t)[1].fn, !.address = Stack(t)[1].address,
                            !.exc = e]

DisconnectFrame(connection) ==
    [NewFrame("_disconnect", "l194") EXCEPT !.address = get_address(connection)]

BroadcastFrame(data) == [NewFrame("broadcast", "l183") EXCEPT !.data = data]

(* lines 183-184: the players lock is taken, the dictionary copied *)
B183(t) ==
    /\ At(t, "broadcast", "l183")
    /\ players_lock \in {0, t}
    /\ players_lock' = t
    /\ Continue(t, [Top(t) EXCEPT !.pc = "l185", !.snapshot = players,
                                  !.todo = DOMAIN players])
    /\ UNCHANGED <<connections, players, players_by_address, Outside, sent, last,
                   processed, connections_lock>>

(* lines 185-190: one turn of the loop; when the loop is over the with     *)
(* block ends and broadcast returns                                         *)
B185(t) ==
    /\ At(t, "broadcast", "l185")
    /\ IF Top(t).todo = {}
       THEN /\ task' = [task EXCEPT ![t].stack = Below(t)]
            /\ players_lock' = IF HoldsPlayersLock(Below(t)) THEN t ELSE 0
            /\ UNCHANGED sent
       ELSE LET i == Min(Top(t).todo)
                connection == Top(t).snapshot[i].address
                f == [Top(t) EXCEPT !.todo = @ \ {i}]
            IN  /\ IF Ignored(get_address(connection), Top(t).ignore)
                   THEN Continue(t, f) /\ UNCHANGED sent
                   ELSE IF CanSend(connection)
                   THEN /\ Continue(t, f)
                        /\ sent' = Append(sent, [to |-> connection, data |-> Top(t).data])
                   ELSE Call(t, f, DisconnectFrame(connection)) /\ UNCHANGED sent
                /\ UNCHANGED players_lock
    /\ UNCHANGED <<connections, players, players_by_address, Outside, last,
                   processed, connections_lock>>

(* lines 194-208: the address is read, the connection closed, the address  *)
(* looked up in the address map                                             *)
D208(t) ==
    /\ At(t, "_disconnect", "l194")
    /\ IF ~HasAddress(Top(t).address) THEN Return(t)
       ELSE /\ Continue(t, [Top(t) EXCEPT !.pc =
                   IF Top(t).address \in DOMAIN players_by_address
                   THEN "l209" ELSE "l211"])
            /\ UNCHANGED last
    /\ UNCHANGED <<connections, players, players_by_address, Outside, sent,
                   processed, players_lock, connections_lock>>

(* line 209: get_player_by_address (line 370) *)
D209(t) ==
    /\ At(t, "_disconnect", "l209")
    /\ IF Top(t).address \in DOMAIN players_by_address
       THEN /\ Continue(t, [Top(t) EXCEPT !.pc = "l211",
                               !.player = players_by_address[Top(t).address]])
            /\ UNCHANGED <<last, players_lock, connections_lock>>
       ELSE Unwind(t, "KeyError")
    /\ UNCHANGED <<connections, players, players_by_address, Outside, sent, processed>>

(* lines 211-214: the entry is deleted under the connections lock, which   *)
(* is re-entrant; without a player the call returns                         *)
D211(t) ==
    /\ At(t, "_disconnect", "l211")
    /\ connections_lock \in {0, t}
    /\ IF Top(t).address \notin connections
       THEN Unwind(t, "KeyError") /\ UNCHANGED connections
       ELSE /\ connections' = connections \ {Top(t).address}
            /\ IF Top(t).player = NoPlayer THEN Return(t)
               ELSE Continue(t, [Top(t) EXCEPT !.pc = "l216"]) /\ UNCHANGED last
            /\ UNCHANGED <<players_lock, connections_lock>>
    /\ UNCHANGED <<players, players_by_address, Outside, sent, processed>>

(* line 216 *)
D216(t) ==
    /\ At(t, "_disconnect", "l216")
    /\ IF Top(t).address \notin DOMAIN players_by_address
       THEN Unwind(t, "KeyError") /\ UNCHANGED players_by_address
       ELSE /\ players_by_address' = DictDel(players_by_address, Top(t).address)
            /\ Continue(t, [Top(t) EXCEPT !.pc = "l217"])
            /\ UNCHANGED <<last, players_lock, connections_lock>>
    /\ UNCHANGED <<connections, players, Outside, sent, processed>>

(* line 217 *)
D217(t) ==
    /\ At(t, "_disconnect", "l217")
    /\ IF Top(t).player.player_id \notin DOMAIN players
       THEN Unwind(t, "KeyError") /\ UNCHANGED players
       ELSE /\ players' = DictDel(players, Top(t).player.player_id)
            /\ Continue(t, [Top(t) EXCEPT !.pc = "l218"])
            /\ UNCHANGED <<last, players_lock, connections_lock>>
    /\ UNCHANGED <<connections, players_by_address, Outside, sent, processed>>

(* line 218 *)
D218(t) ==
    /\ At(t, "_disconnect", "l218")
    /\ Call(t, [Top(t) EXCEPT !.pc = "l219"],
            BroadcastFrame(DespawnPlayerPacket(Top(t).player.player_id)))
    /\ UNCHANGED <<connections, players, players_by_address, Outside, sent, last,
                   processed, players_lock, connections_lock>>

(* line 219 *)
D219(t) ==
    /\ At(t, "_disconnect", "l219")
    /\ Call(t, [Top(t) EXCEPT !.pc = "l220"],
            BroadcastFrame(MessagePacket(QuitMessage(Top(t).player.name))))
    /\ UNCHANGED <<connections, players, players_by_address, Outside, sent, last,
                   processed, players_lock, connections_lock>>

(* the end of _disconnect, after line 219 *)
D220(t) ==
    /\ At(t, "_disconnect", "l220")
    /\ Return(t)
    /\ processed' = processed \cup {Top(t).address}
    /\ UNCHANGED <<connections, players, players_by_address, Outside, sent,
                   players_lock, connections_lock>>

(* a statement of a broadcast or _disconnect call of thread t *)
CallStep(t) ==
    \/ B183(t) \/ B185(t)
    \/ D208(t) \/ D209(t) \/ D211(t) \/ D216(t) \/ D217(t) \/ D218(t) \/ D219(t)
    \/ D220(t)

(* line 162 (145, 129): the test of the while loop; the body starts at     *)
(* pc, and without the running flag the thread goes to after                *)
While(t, fn, pc, after) ==
    /\ task[t] = Started
    /\ task' = [task EXCEPT ![t] =
                   IF running THEN [pc |-> "run", stack |-> <<NewFrame(fn, pc)>>]
                   ELSE after]
    /\ sent' = <<>>
    /\ UNCHANGED <<connections, players, players_by_address, Outside, last,
                   processed, players_lock, connections_lock>>

Finished == [pc |-> "done", stack |-> <<>>]

(* lines 163-164 (146-147): the connections lock is taken and the loop     *)
(* over the connections begins                                              *)
TakeConnections(t, fn, from, to) ==
    /\ At(t, fn, from)
    /\ connections_lock \in {0, t}
    /\ connections_lock' = t
    /\ Continue(t, [Top(t) EXCEPT !.pc = to, !.todo = connections,
                                  !.size = Cardinality(connections)])
    /\ UNCHANGED <<connections, players, players_by_address, Outside, sent, last,
                   processed, players_lock>>

(* the loop is over: the with block ends, the thread is back at the test   *)
PassOver(t) ==
    /\ task' = [task EXCEPT ![t] = Started]
    /\ connections_lock' = 0
    /\ last' = [NoOp EXCEPT !.op = Top(t).fn]

FlushWhile == While(FlushThread, "_flush_thread", "l163", Finished)

F163 == TakeConnections(FlushThread, "_flush_thread", "l163", "l165")

(* lines 164-168: one turn of the loop over the copy *)
F165 ==
    /\ At(FlushThread, "_flush_thread", "l165")
    /\ IF Top(FlushThread).todo = {} THEN PassOver(FlushThread)
       ELSE LET connection == Min(Top(FlushThread).todo)
                f == [Top(FlushThread) EXCEPT !.todo = @ \ {connection}]
            IN  /\ IF CanFlush(connection) THEN Continue(FlushThread, f)
                   ELSE Call(FlushThread, f, DisconnectFrame(connection))
                /\ UNCHANGED <<last, connections_lock>>
    /\ UNCHANGED <<connections, players, players_by_address, Outside, sent,
                   processed, players_lock>>

FlushStep == FlushWhile \/ F163 \/ F165 \/ CallStep(FlushThread)

KeepAliveWhile == While(KeepAliveThread, "_keep_alive_thread", "l146", Finished)

K146 == TakeConnections(KeepAliveThread, "_keep_alive_thread", "l146", "l147")

(* lines 147-152: one turn of the loop over the dictionary itself; after   *)
(* the loop the lock is released and the thread sleeps                      *)
K147 ==
    /\ At(KeepAliveThread, "_keep_alive_thread", "l147")
    /\ IF SizeChanged(ServerState, Top(KeepAliveThread).size)
       THEN Unwind(KeepAliveThread, "RuntimeError") /\ UNCHANGED sent
       ELSE IF Top(KeepAliveThread).todo = {}
       THEN PassOver(KeepAliveThread) /\ UNCHANGED <<sent, players_lock>>
       ELSE LET connection == Min(Top(KeepAliveThread).todo)
                f == [Top(KeepAliveThread) EXCEPT !.todo = @ \ {connection}]
            IN  /\ IF CanSend(connection)
                   THEN /\ Continue(KeepAliveThread, f)
                        /\ sent' = Append(sent, [to |-> connection, data |-> PingPacket])
                   ELSE /\ Call(KeepAliveThread, f, DisconnectFrame(connection))
                        /\ UNCHANGED sent
                /\ UNCHANGED <<last, players_lock, connections_lock>>
    /\ UNCHANGED <<connections, players, players_by_address, Outside, processed>>

KeepAliveStep == KeepAliveWhile \/ K146 \/ K147 \/ CallStep(KeepAliveThread)

AutosaveMessage == <<"Autosaving the world...">>

(* line 129; after the loop the thread is at line 142 *)
SaveWhile ==
    While(SaveThread, "_save_thread", "l131",
          [pc |-> "run", stack |-> <<NewFrame("_save_thread", "l142")>>])

(* lines 131-134 *)
S131 ==
    /\ At(SaveThread, "_save_thread", "l131")
    /\ Call(SaveThread, [Top(SaveThread) EXCEPT !.pc = "l136"],
            BroadcastFrame(MessagePacket(AutosaveMessage)))
    /\ UNCHANGED <<connections, players, players_by_address, Outside, sent, last,
                   processed, players_lock, connections_lock>>

(* line 136: save_world (lines 249-254) writes the file or raises IOError  *)
S136 ==
    /\ At(SaveThread, "_save_thread", "l136")
    /\ \E written \in BOOLEAN :
          IF written
          THEN /\ Continue(SaveThread, [Top(SaveThread) EXCEPT !.pc = "l137"])
               /\ UNCHANGED <<last, players_lock, connections_lock>>
          ELSE Unwind(SaveThread, "IOError")
    /\ UNCHANGED <<connections, players, players_by_address, Outside, sent, processed>>

(* line 137: the sleep is over, the thread is back at the test *)
S137 ==
    /\ At(SaveThread, "_save_thread", "l137")
    /\ task' = [task EXCEPT ![SaveThread] = Started]
    /\ last' = [NoOp EXCEPT !.op = "_save_thread"]
    /\ UNCHANGED <<connections, players, players_by_address, Outside, sent,
                   processed, players_lock, connections_lock>>

(* line 142: the save after the loop, written or not; the thread ends *)
S142 ==
    /\ At(SaveThread, "_save_thread", "l142")
    /\ \E written \in BOOLEAN :
          /\ task' = [task EXCEPT ![SaveThread] = Finished]
          /\ last' = [NoOp EXCEPT !.op = "save_world",
                                  !.exc = IF written THEN "none" ELSE "IOError"]
    /\ UNCHANGED <<connections, players, players_by_address, Outside, sent,
                   processed, players_lock, connections_lock>>

SaveStep == SaveWhile \/ S131 \/ S136 \/ S137 \/ S142 \/ CallStep(SaveThread)

(* _connection_thread, line 158: the entry is added under the connections  *)
(* lock                                                                     *)
LockedAccept == connections_lock = 0 /\ Accept

(* add_player run at once by a receive thread when the players lock        *)
(* (line 290) is free                                                       *)
LockedAddPlayer == players_lock = 0 /\ AddPlayer

-----------------------------------------------------------------------------
(* kick_player (server.py:298-313) run by the thread of its caller while   *)
(* receive threads run add_player one statement at a time                   *)

(* lines 307-311: the Player is looked up and sent the disconnect packet,  *)
(* its entry of the ID map is deleted under the players lock                *)
K307 ==
    /\ task[CallerThread] = Resting
    /\ players_lock = 0
    /\ \E id \in DOMAIN players :
          LET player == players[id]
              s == send(ServerState, player.address, DisconnectPlayerPacket("kick"))
          IN  /\ s.exc = "none"
              /\ sent' = s.sent
              /\ players' = KickDelete(s, id).players
              /\ task' = [task EXCEPT ![CallerThread] =
                            [pc |-> "run",
                             stack |-> <<[NewFrame("kick_player", "l312")
                                            EXCEPT !.player = player,
                                                   !.address = player.address]>>]]
    /\ UNCHANGED <<connections, players_by_address, Outside, last, processed,
                   players_lock, connections_lock>>

(* lines 312-313: the kick message is broadcast and the connection         *)
(* disconnected, when both locks are free                                   *)
K312 ==
    /\ At(CallerThread, "kick_player", "l312")
    /\ players_lock = 0
    /\ connections_lock = 0
    /\ Commit(KickAnnounce(ServerState, Top(CallerThread).player, "kick"),
              [NoOp EXCEPT !.op = "kick_player",
                           !.player_id = Top(CallerThread).player.player_id,
                           !.address = Top(CallerThread).player.address,
                           !.name = Top(CallerThread).player.name])
    /\ task' = [task EXCEPT ![CallerThread] = Resting]
    /\ UNCHANGED <<accepted, broken, processed, thr, players_lock, calls, running,
                   connections_lock>>

NextKick == ConcAccept \/ AddPlayerStep \/ K307 \/ K312

SpecKick == Init /\ [][NextKick]_vars

-----------------------------------------------------------------------------
(* _disconnect called by receive threads, one statement at a time *)

(* thread t calls self._disconnect(connection) *)
CallDisconnect(t, connection) ==
    /\ task[t] = Resting
    /\ Frame(t).pc = "idle"
    /\ calls < MaxCalls
    /\ calls' = calls + 1
    /\ task' = [task EXCEPT ![t] =
                   [pc |-> "run", stack |-> <<DisconnectFrame(connection)>>]]
    /\ UNCHANGED <<ServerVars, accepted, broken, sent, last, processed, thr,
                   players_lock, running, connections_lock>>

DisconnectStep ==
    \E t \in ConcAddresses :
        \/ (\E a \in accepted : CallDisconnect(t, a))
        \/ CallStep(t)

NextRace == ConcAccept \/ LockedAddPlayer \/ DisconnectStep

SpecRace == Init /\ [][NextRace]_vars

ThreadAccept == connections_lock = 0 /\ ConcAccept

(* The autosave loop, with sessions that connect, log in and break *)
NextAutosave == ThreadAccept \/ Break \/ LockedAddPlayer \/ Stop \/ SaveStep

SpecAutosave == Init /\ [][NextAutosave]_vars

(* The autosave loop and the flush loop *)
NextThreads == NextAutosave \/ FlushStep

SpecThreads == Init /\ [][NextThreads]_vars

(* Both loops take their next statement, the lock it waits for included,   *)
(* if that statement can be taken again and again                           *)
SpecStopping ==
    Init /\ [][NextThreads]_vars /\ SF_vars(SaveStep) /\ SF_vars(FlushStep)

(* The flush loop and the keep-alive loop scheduled fairly, with           *)
(* operators logging in                                                     *)
LiveSessions == 2
LiveAddresses == 1..LiveSessions

LiveAccept ==
    /\ connections_lock = 0
    /\ LiveAddresses \ accepted # {}
    /\ Connect(Min(LiveAddresses \ accepted))

LiveLogin ==
    /\ players_lock = 0
    /\ \E a \in connections, name \in OpPlayers : Login(a, name)

NextLive == LiveAccept \/ Break \/ LiveLogin \/ FlushStep \/ KeepAliveStep

(* Each loop takes its next statement, the lock it waits for included, if  *)
(* that statement can be taken again and again                              *)
SpecLive ==
    Init /\ [][NextLive]_vars /\ SF_vars(FlushStep) /\ SF_vars(KeepAliveStep)

-----------------------------------------------------------------------------
(* Properties *)

Values(d) == {d[k] : k \in DOMAIN d}
SentTo(address) == SelectSeq(sent, LAMBDA m : m.to = address)
DataSentTo(address) == [k \in 1..Len(SentTo(address)) |-> SentTo(address)[k].data]
AllIds == 0..(IdRange - 1)

(* C1: every address key of the player-by-address map is a key of the      *)
(* connection table, and the Player it maps to is stored in the ID map      *)
(* under its own player_id, after every add_player, kick_player and         *)
(* _disconnect call.                                                        *)
C1_RegistryConsistent ==
    \A a \in DOMAIN players_by_address :
        /\ a \in connections
        /\ players_by_address[a].player_id \in DOMAIN players
        /\ players[players_by_address[a].player_id] = players_by_address[a]

(* C3: _disconnect called again on a session that a _disconnect call has    *)
(* fully processed raises nothing, changes none of the three maps and       *)
(* broadcasts nothing.                                                      *)
C3_SecondDisconnectNoOp ==
    [][(last'.op = "_disconnect" /\ last'.address \in processed)
         => /\ last'.exc = "none"
            /\ UNCHANGED <<connections, players, players_by_address>>
            /\ sent' = <<>>]_vars

(* C4: add_player with len(players) >= max_players: a name that is not an  *)
(* operator's creates no Player, leaves both player maps, the counter and   *)
(* the connection table unchanged and the session is sent only the          *)
(* "Server full" disconnect packet; an operator's name is admitted and an   *)
(* ID is returned.                                                          *)
C4_CapacityCheck ==
    [][(last'.op = "add_player" /\ Cardinality(DOMAIN players) >= MaxPlayers)
         => IF ~is_op(last'.name)
            THEN /\ UNCHANGED <<players, players_by_address, next_player_id,
                                connections>>
                 /\ last'.ret = -1
                 /\ \/ /\ last'.exc = "none"
                       /\ sent' = <<[to |-> last'.address,
                                     data |-> DisconnectPlayerPacket("Server full")]>>
                    \/ /\ last'.exc = "IOError"
                       /\ last'.address \in broken
                       /\ sent' = <<>>
            ELSE /\ last'.exc = "none"
                 /\ last'.ret >= 0
                 /\ last'.ret \notin DOMAIN players
                 /\ DOMAIN players' = DOMAIN players \cup {last'.ret}
                 /\ players'[last'.ret] =
                        [player_id |-> last'.ret, address |-> last'.address,
                         name |-> last'.name, perm |-> PermOp]
                 /\ players_by_address'[last'.address] = players'[last'.ret]]_vars

(* C4 happens: a full server has just turned away a name that is not an    *)
(* operator's, with the "Server full" packet queued.                        *)
C4_Witness ==
    /\ last.op = "add_player"
    /\ ~is_op(last.name)
    /\ Cardinality(DOMAIN players) >= MaxPlayers
    /\ last.ret = -1
    /\ Len(sent) = 1

(* C5: every player ID that add_player assigns lies in [0,255]. *)
C5_IdsInRange ==
    /\ \A id \in DOMAIN players : id \in AllIds
    /\ (last.op = "add_player" /\ last.ret # -1) => last.ret \in AllIds

(* C2: no two admitted Players have the same player_id while add_player    *)
(* calls of different sessions interleave, so every Player in the           *)
(* player-by-address map is the one the ID map holds under its ID.          *)
C2_UniqueIds ==
    /\ \A a, b \in DOMAIN players_by_address :
          a # b => players_by_address[a].player_id # players_by_address[b].player_id
    /\ \A a \in DOMAIN players_by_address :
          /\ players_by_address[a].player_id \in DOMAIN players
          /\ players[players_by_address[a].player_id] = players_by_address[a]

C7_ExhaustionRaises ==
    [][(/\ last'.op = "add_player"
        /\ AllIds \subseteq DOMAIN players
        /\ CanJoin(ServerState, last'.name))
         => /\ last'.exc = "ValueError"
            /\ last'.ret = -1
            /\ UNCHANGED <<players, players_by_address>>]_vars

(* C8: ID 0 is never assigned to a player, and the first player admitted    *)
(* on a fresh server gets ID 1.                                             *)
C8_IdZeroReserved ==
    [][(last'.op = "add_player" /\ last'.ret # -1)
         => /\ last'.ret # 0
            /\ (players = EmptyDict /\ next_player_id = 0) => last'.ret = 1]_vars

(* C9: kick_player on an admitted player raises nothing, leaves the kicked  *)
(* player absent from the three maps, and every remaining player has been   *)
(* sent the kick message, the despawn packet and the quit message, in this  *)
(* order.                                                                   *)
C9_KickCompletes ==
    last.op = "kick_player"
      => /\ last.exc = "none"
         /\ last.player_id \notin DOMAIN players
         /\ last.address \notin DOMAIN players_by_address
         /\ last.address \notin connections
         /\ \A p \in Values(players) :
               DataSentTo(p.address) =
                 <<MessagePacket(KickMessage(last.name, "kick")),
                   DespawnPlayerPacket(last.player_id),
                   MessagePacket(QuitMessage(last.name))>>

(* C10: broadcast sends the data to no address in ignore; every player of   *)
(* the snapshot whose address is not in ignore has been sent the data or    *)
(* has been disconnected when broadcast returns; and broadcast raises       *)
(* nothing, however many recipients fail.                                   *)
C10_BroadcastResilient ==
    [][last'.op = "broadcast"
         => /\ last'.exc = "none"
            /\ \A k \in 1..Len(sent') :
                  sent'[k].data = DataPacket => sent'[k].to \notin last'.ignore
            /\ \A p \in Values(players) :
                  p.address \notin last'.ignore
                    => \/ \E k \in 1..Len(sent') :
                            sent'[k] = [to |-> p.address, data |-> DataPacket]
                       \/ p.address \notin connections']_vars

C13_KeepAlivePass ==
    [][last'.op = "keep_alive"
         => /\ \A a \in connections :
                  \/ \E k \in 1..Len(sent') : sent'[k] = [to |-> a, data |-> PingPacket]
                  \/ a \notin connections'
            /\ \A a \in connections \cap broken : a \notin connections'
            /\ running' => task'[KeepAliveThread] = Started]_vars

(* C11: when the socket of an admitted player breaks, the player is         *)
(* eventually absent from the connection table and from both player maps,   *)
(* and a _disconnect call for it has run to its end, so that the despawn    *)
(* packet and the quit message have been sent to every player that          *)
(* remains, when the flush loop and the keep-alive loop are scheduled       *)
(* fairly.                                                                  *)
C11_BrokenPlayerRemoved ==
    \A a \in LiveAddresses :
        (last.op = "break" /\ last.address = a /\ a \in DOMAIN players_by_address)
          ~> (/\ a \notin connections
              /\ a \notin DOMAIN players_by_address
              /\ \A id \in DOMAIN players : players[id].address # a
              /\ a \in processed)

InLoop(t) == Stack(t) # <<>> /\ Stack(t)[1].pc # "l142"

(* C14: an exception raised in an iteration of the autosave loop, by       *)
(* save_world or by the broadcast of the warning, does not end the loop:    *)
(* the thread is back at the test of the while loop; and an iteration       *)
(* reaches save_world (line 136) only by broadcasting the warning           *)
(* (lines 131-134) first.                                                   *)
C14_AutosaveSurvives ==
    [][/\ (InLoop(SaveThread) /\ task'[SaveThread].stack = <<>>)
            => task'[SaveThread] = Started
       /\ (/\ task'[SaveThread].stack # <<>>
           /\ task'[SaveThread].stack[1].pc = "l136"
           /\ ~(Stack(SaveThread) # <<>> /\ Stack(SaveThread)[1].pc = "l136"))
            => /\ At(SaveThread, "_save_thread", "l131")
               /\ Len(task'[SaveThread].stack) = 2
               /\ task'[SaveThread].stack[2] =
                      BroadcastFrame(MessagePacket(AutosaveMessage))]_vars

(* C14 happens: the broadcast of the warning has raised KeyError, the      *)
(* running flag is set and the thread is back at the test of its loop.      *)
C14_Witness ==
    /\ last.op = "_save_thread"
    /\ last.exc = "KeyError"
    /\ running
    /\ task[SaveThread] = Started

(* C17: no two threads wait for each other's lock: one holding the         *)
(* connections lock and waiting for the players lock (line 183) while the   *)
(* other holds the players lock and waits for the connections lock          *)
(* (line 211).                                                              *)
C17_NoDeadlock ==
    ~ \E t, u \in Threads :
         /\ t # u
         /\ connections_lock = t
         /\ At(t, "broadcast", "l183")
         /\ players_lock = u
         /\ At(u, "_disconnect", "l211")

(* C15: once the running flag is cleared the autosave thread eventually    *)
(* leaves its loop and ends after the save of line 142, which it runs       *)
(* once.                                                                    *)
C15_FinalSave ==
    /\ (~running) ~> (task[SaveThread] = Finished)
    /\ [][task'[SaveThread] = Finished
            => \/ task[SaveThread] = Finished
               \/ At(SaveThread, "_save_thread", "l142")]_vars

(* C16: after any sequence of add_player, kick_player and _disconnect      *)
(* calls, add_player called again for a session included, no two Players    *)
(* of the ID map have the same address, and every Player of the ID map is   *)
(* the value the address map holds for its address.                         *)
C16_OnePlayerPerSession ==
    /\ \A i, j \in DOMAIN players :
          i # j => players[i].address # players[j].address
    /\ \A i \in DOMAIN players :
          /\ players[i].address \in DOMAIN players_by_address
          /\ players_by_address[players[i].address] = players[i]

(* C18: with no operator's name involved, the ID map never holds more      *)
(* than max_players Players, also when add_player calls of several          *)
(* sessions interleave.                                                     *)
C18_CapacityRespected == Cardinality(DOMAIN players) <= MaxPlayers

(* C19: the second half of kick_player (lines 312-313) removes nothing but *)
(* the kicked session's entries: every Player of another session that is    *)
(* in the ID map or in the address map when it starts, one admitted since   *)
(* line 311 deleted the kicked Player's ID included, is still there when    *)
(* kick_player is over.                                                     *)
C19_KickRemovesOnlyKicked ==
    [][(At(CallerThread, "kick_player", "l312") /\ task'[CallerThread] = Resting)
         => /\ \A a \in DOMAIN players_by_address :
                  a # Top(CallerThread).address
                    => /\ a \in DOMAIN players_by_address'
                       /\ players_by_address'[a] = players_by_address[a]
            /\ \A id \in DOMAIN players :
                  players[id].address # Top(CallerThread).address
                    => /\ id \in DOMAIN players'
                       /\ players'[id] = players[id]]_vars

(* the call of thread t has deleted the session's table entry (line 212)   *)
(* and is not over                                                          *)
Removing(t, address) ==
    /\ Stack(t) # <<>>
    /\ Stack(t)[1].fn = "_disconnect"
    /\ Stack(t)[1].address = address
    /\ Stack(t)[1].pc \in {"l216", "l217", "l218", "l219", "l220"}

(* a call of thread t has passed line 217 for the session *)
Announcing(t, address) ==
    \E k \in 1..Len(Stack(t)) :
        /\ Stack(t)[k].fn = "_disconnect"
        /\ Stack(t)[k].address = address
        /\ Stack(t)[k].pc \in {"l218", "l219", "l220"}

(* C20: when two threads are in _disconnect for the same session, at most  *)
(* one of them has deleted the Player and broadcasts the despawn packet     *)
(* and the quit message, and the call of the one does not end by an         *)
(* exception while the call of the other, which has removed the session,    *)
(* is in progress.                                                          *)
C20_ConcurrentDisconnect ==
    /\ [](\A t, u \in ConcAddresses, a \in ConcAddresses :
             (Announcing(t, a) /\ Announcing(u, a)) => t = u)
    /\ [][\A t, u \in ConcAddresses :
             (/\ t # u
              /\ Stack(t) # <<>>
              /\ Removing(u, Stack(t)[1].address)
              /\ task'[t] = Resting)
               => last'.exc = "none"]_vars

=============================================================================
